---- MODULE Spec2Model ----
(***************************************************************************)
(* Model of start() in cmd/server/main.go: configuration, installation of  *)
(* the signal context, the errgroup with the Start() and the Stop()        *)
(* goroutines, the join and the exit status.                               *)
(*                                                                         *)
(* The server component (s.Start / s.Stop) is an external collaborator:    *)
(* its behaviour is an input of the run, chosen in Init.                   *)
(***************************************************************************)
EXTENDS Integers, Sequences, FiniteSets, TLC

\* Number of SIGINT/SIGTERM deliveries explored in one run.
MaxSignals == 2

\* The nil error and the two distinguishable component errors.
NoErr == "nil"
Ea == "Ea"
Eb == "Eb"

VARIABLES
    pc,          \* position of the main goroutine inside start()
    loggerFails, \* input: createLogger returns an error
    awsFails,    \* input: config.LoadDefaultConfig returns an error
    startMode,   \* input: how s.Start() behaves: "immediate", "untilStop", "never"
    startRes,    \* input: the error s.Start() returns when it returns
    stopMode,    \* input: how s.Stop() behaves: "returns", "never"
    stopRes,     \* input: the error s.Stop() returns when it returns
    dotEnv,      \* input: the variables the file .env sets (ok = FALSE: not in the file)
    installed,   \* signal.NotifyContext handler currently registered
    installs,    \* number of times a handler was registered
    sigCtxDone,  \* the context returned by signal.NotifyContext is done
    fireCount,   \* number of not-done -> done transitions of that context
    egCtxDone,   \* the context returned by errgroup.WithContext is done
    egErr,       \* errgroup's g.err (set once, by errOnce)
    wg,          \* errgroup's WaitGroup counter
    startTask,   \* goroutine of line 68: "none","spawned","running","returned","recorded","finished"
    stopTask,    \* goroutine of line 78: same positions
    startCalls,  \* number of invocations of s.Start()
    stopCalls,   \* number of invocations of s.Stop()
    signals,     \* number of termination requests delivered to the handler
    drains,      \* number of times main passed <-ctx.Done()
    log,         \* records written through log.Info, oldest first
    exit,        \* value of the return statement reached; -1 while none was reached
    sigCh,       \* signals held by the channel of NotifyContext (capacity 1)
    watcher,     \* goroutine of NotifyContext: "none", "waiting", "received", "exited"
    environ,     \* the process environment: name -> what os.LookupEnv yields
    host,        \* the local host of start(); <<>> before line 44
    port,        \* the local port of start(); -1 before line 45
    ret          \* the last call of a configuration getter and its result

vars == <<host, port, pc, loggerFails, awsFails, startMode, startRes, stopMode, stopRes, dotEnv,
          installed, installs, sigCtxDone, fireCount, egCtxDone, egErr, wg,
          startTask, stopTask, startCalls, stopCalls, signals, drains, log, exit,
          sigCh, watcher, environ, ret>>

inputs == <<loggerFails, awsFails, startMode, startRes, stopMode, stopRes, dotEnv>>
ctxs == <<installed, installs, sigCtxDone, fireCount, egCtxDone>>
group == <<egErr, wg>>
tasks == <<startTask, stopTask, startCalls, stopCalls>>
envs == <<environ, ret, host, port>>
sigs == <<sigCh, watcher>>

----------------------------------------------------------------------------
(* Strings, the environment and strconv.Atoi *)

\* Longest environment value enumerated character by character.
MaxLen == 2

\* Characters the enumerated values are made of: both signs, the digit zero,
\* a non-zero digit and a character that is no digit.
Alphabet == {"+", "-", "0", "7", "x"}

\* All strings over the alphabet up to the given length.
StringsUpTo(n) == UNION {[1..k -> Alphabet] : k \in 0..n}

\* k copies of the character c.
Repeat(c, k) == [i \in 1..k |-> c]

\* Values longer than MaxLen: digit strings beyond the range of a 64-bit int,
\* with 20 and with 19 digits, a long spelling of a small number, and digit
\* strings beyond and within the range of a uint64 followed by a non-digit.
LongValues ==
    { Repeat("7", 20),
      <<"-">> \o Repeat("7", 20),
      Repeat("9", 19),
      Repeat("0", 19) \o <<"7">>,
      Repeat("7", 20) \o <<"x">>,
      Repeat("9", 19) \o <<"x">> }

EnvValues == StringsUpTo(MaxLen) \cup LongValues

\* The variables looked up.
EnvNames == {"HOST", "PORT"}

\* The defaults passed by callers.
StringDefaults == {<<>>, <<"x">>}
IntDefaults == {0, 8080}

\* What os.LookupEnv yields for a variable that is not set.
Unset == [v |-> <<>>, ok |-> FALSE]

Environments == [EnvNames -> {[v |-> s, ok |-> TRUE] : s \in EnvValues} \cup {Unset}]

\* The environments start() is entered with, and the contents of .env.
StartEnvironments == [EnvNames -> {Unset, [v |-> <<"7">>, ok |-> TRUE]}]
DotEnvFiles == [EnvNames -> {Unset, [v |-> <<"x">>, ok |-> TRUE]}]

\* The default of HOST in start().
Localhost == <<"l", "o", "c", "a", "l", "h", "o", "s", "t">>

\* No getter has been called yet.
NoCall == [fn |-> "none", name |-> "", defS |-> <<>>, defI |-> 0,
           outS |-> <<>>, outI |-> 0]

\* v, ok := os.LookupEnv(name)
LookupEnv(name) == environ[name]

DigitChars == {"0", "1", "2", "3", "4", "5", "6", "7", "8", "9"}

\* ch - '0'
DigitVal(c) ==
    CASE c = "0" -> 0 [] c = "1" -> 1 [] c = "2" -> 2 [] c = "3" -> 3
      [] c = "4" -> 4 [] c = "5" -> 5 [] c = "6" -> 6 [] c = "7" -> 7
      [] c = "8" -> 8 [] c = "9" -> 9

\* n = n*10 + digit, over the digits from left to right.
RECURSIVE Accumulate(_, _)
Accumulate(ds, n) ==
    IF ds = <<>> THEN n ELSE Accumulate(Tail(ds), n * 10 + DigitVal(Head(ds)))

\* The digits without their leading zeros.
RECURSIVE StripZeros(_)
StripZeros(ds) ==
    IF ds # <<>> /\ Head(ds) = "0" THEN StripZeros(Tail(ds)) ELSE ds

\* a <= b for two digit strings of the same length.
RECURSIVE DigitsLeq(_, _)
DigitsLeq(a, b) ==
    \/ a = <<>>
    \/ DigitVal(Head(a)) < DigitVal(Head(b))
    \/ DigitVal(Head(a)) = DigitVal(Head(b)) /\ DigitsLeq(Tail(a), Tail(b))

\* The decimal digits of 1<<63 - 1 and of 1<<63.
MaxInt64Digits == <<"9","2","2","3","3","7","2","0","3","6","8","5","4","7","7","5","8","0","7">>
MinInt64Digits == <<"9","2","2","3","3","7","2","0","3","6","8","5","4","7","7","5","8","0","8">>

\* The magnitude fits a 64-bit int of the given sign.
FitsInt64(ds, neg) ==
    LET sig == StripZeros(ds)
    IN  \/ Len(sig) < 19
        \/ /\ Len(sig) = 19
           /\ DigitsLeq(sig, IF neg THEN MinInt64Digits ELSE MaxInt64Digits)

\* 1<<63 - 1 and -1<<63, the values Atoi returns along with a range error;
\* they are kept symbolic.
MaxInt64 == "9223372036854775807"
MinInt64 == "-9223372036854775808"

\* The decimal digits of 1<<64 - 1.
MaxUint64Digits == <<"1","8","4","4","6","7","4","4","0","7","3","7","0","9","5","5","1","6","1","5">>

\* The digits denote a number a uint64 can hold.
FitsUint64(ds) ==
    LET sig == StripZeros(ds)
    IN  \/ Len(sig) < 20
        \/ /\ Len(sig) = 20
           /\ DigitsLeq(sig, MaxUint64Digits)

\* The scan of ParseUint from position i on: it stops with a syntax error at
\* the first character that is no digit, and with a range error at the first
\* digit with which the number no longer fits a uint64, whichever comes first.
RECURSIVE Scan(_, _)
Scan(body, i) ==
    IF i > Len(body) THEN "end"
    ELSE IF body[i] \notin DigitChars THEN "syntax"
    ELSE IF ~FitsUint64(SubSeq(body, 1, i)) THEN "range"
    ELSE Scan(body, i + 1)

\* strconv.Atoi(s) on a 64-bit platform: an optional sign, then at least one
\* decimal digit and nothing else, the value within the range of int. A
\* syntax error comes with 0, a range error with the nearest int.
Atoi(s) ==
    LET neg == s # <<>> /\ Head(s) = "-"
        signed == s # <<>> /\ Head(s) \in {"+", "-"}
        body == IF signed THEN Tail(s) ELSE s
        scan == Scan(body, 1)
    IN  IF body = <<>> \/ scan = "syntax"
          THEN [val |-> 0, ok |-> FALSE]
        ELSE IF scan = "range" \/ ~FitsInt64(body, neg)
          THEN [val |-> IF neg THEN MinInt64 ELSE MaxInt64, ok |-> FALSE]
        ELSE [val |-> IF neg THEN -Accumulate(body, 0) ELSE Accumulate(body, 0),
              ok |-> TRUE]

\* func getStringOrDefault(name, defaultV string) string
getStringOrDefault(name, defaultV) ==
    LET r == LookupEnv(name)
    IN  IF ~r.ok THEN defaultV ELSE r.v

\* Fault variant of getIntOrDefault: a value that does not parse yields 0
\* instead of the default.
getIntOrDefault_ZeroOnError(name, defaultV) ==
    LET r == LookupEnv(name)
    IN  IF ~r.ok
          THEN defaultV
          ELSE LET a == Atoi(r.v)
               IN  IF ~a.ok THEN 0 ELSE a.val

\* func getIntOrDefault(name string, defaultV int) int
getIntOrDefault(name, defaultV) ==
    LET r == LookupEnv(name)
    IN  IF ~r.ok
          THEN defaultV
          ELSE LET a == Atoi(r.v)
               IN  IF ~a.ok THEN defaultV ELSE a.val

----------------------------------------------------------------------------

Init ==
    /\ pc = "envLoad"
    /\ dotEnv \in DotEnvFiles
    /\ loggerFails \in BOOLEAN
    /\ awsFails \in BOOLEAN
    /\ startMode \in {"immediate", "untilStop", "never"}
    /\ startRes \in {NoErr, Ea}
    /\ stopMode \in {"returns", "never"}
    /\ stopRes \in {NoErr, Eb}
    /\ installed = FALSE
    /\ installs = 0
    /\ sigCtxDone = FALSE
    /\ fireCount = 0
    /\ egCtxDone = FALSE
    /\ egErr = NoErr
    /\ wg = 0
    /\ startTask = "none"
    /\ stopTask = "none"
    /\ startCalls = 0
    /\ stopCalls = 0
    /\ signals = 0
    /\ drains = 0
    /\ log = <<>>
    /\ exit = -1
    /\ sigCh = 0
    /\ watcher = "none"
    /\ environ \in StartEnvironments
    /\ ret = NoCall
    /\ host = <<>>
    /\ port = -1

----------------------------------------------------------------------------
(* Main goroutine *)

\* _ = env.Load(), one variable: os.Setenv puts a variable the file .env sets
\* into the environment, over the value it had. The variables are set one
\* at a time; one that already holds the file's value is left as it is.
EnvLoadSetenv(n) ==
    /\ pc = "envLoad"
    /\ dotEnv[n].ok
    /\ environ[n] # dotEnv[n]
    /\ environ' = [environ EXCEPT ![n] = dotEnv[n]]
    /\ UNCHANGED <<pc, ret, host, port, sigs, inputs, ctxs, group, tasks, signals,
                   drains, log, exit>>

\* _ = env.Load() returns, every variable of the file set; a missing file
\* sets none and the error is dropped.
EnvLoadReturn ==
    /\ pc = "envLoad"
    /\ \A n \in EnvNames : dotEnv[n].ok => environ[n] = dotEnv[n]
    /\ pc' = "createLogger"
    /\ UNCHANGED <<envs, sigs, inputs, ctxs, group, tasks, signals, drains,
                   log, exit>>

\* log, err := createLogger("development")
CreateLogger ==
    /\ pc = "createLogger"
    /\ pc' = IF loggerFails THEN "loggerReturn" ELSE "getHost"
    /\ UNCHANGED <<envs, sigs, inputs, ctxs, group, tasks, signals, drains,
                   log, exit>>

\* if err != nil { fmt.Println(...); return 1 }: no defer is registered yet,
\* so start() returns at once.
LoggerReturn ==
    /\ pc = "loggerReturn"
    /\ exit' = 1
    /\ pc' = "done"
    /\ UNCHANGED <<envs, sigs, inputs, ctxs, group, tasks, signals, drains, log>>

\* host := env.GetStringOrDefault("HOST", "localhost"); the getter of the env
\* package reads as the function of the same name at lines 131-137.
GetHost ==
    /\ pc = "getHost"
    /\ host' = getStringOrDefault("HOST", Localhost)
    /\ pc' = "getPort"
    /\ UNCHANGED <<environ, ret, port, sigs, inputs, ctxs, group, tasks, signals,
                   drains, log, exit>>

\* port := env.GetIntOrDefault("PORT", 8080); the getter of the env package
\* reads as the function of the same name at lines 139-149.
GetPort ==
    /\ pc = "getPort"
    /\ port' = getIntOrDefault("PORT", 8080)
    /\ pc' = "loadConfig"
    /\ UNCHANGED <<environ, ret, host, sigs, inputs, ctxs, group, tasks, signals,
                   drains, log, exit>>

\* awsConfig, err := config.LoadDefaultConfig(...); on success the server is
\* constructed (server.New).
LoadDefaultConfig ==
    /\ pc = "loadConfig"
    /\ pc' = IF awsFails THEN "configLog" ELSE "notifyContext"
    /\ UNCHANGED <<envs, sigs, inputs, ctxs, group, tasks, signals, drains,
                   log, exit>>

\* log.Info("Error creating AWS config", zap.Error(err))
ConfigLog ==
    /\ pc = "configLog"
    /\ log' = Append(log, "config")
    /\ pc' = "configReturn"
    /\ UNCHANGED <<envs, sigs, inputs, ctxs, group, tasks, signals, drains, exit>>

\* Fault variant of ConfigReturn: the early return is missing, so start()
\* carries on with the zero configuration.
ConfigReturn_FallThrough ==
    /\ pc = "configReturn"
    /\ pc' = "notifyContext"
    /\ UNCHANGED <<envs, sigs, inputs, ctxs, group, tasks, signals, drains,
                   log, exit>>

\* return 1 of line 53: the return statement is reached; the deferred
\* log.Sync follows.
ConfigReturn ==
    /\ pc = "configReturn"
    /\ exit' = 1
    /\ pc' = "syncReturn"
    /\ UNCHANGED <<envs, sigs, inputs, ctxs, group, tasks, signals, drains, log>>

\* ctx, stop := signal.NotifyContext(...); defer stop(); eg, ctx := errgroup.WithContext(ctx)
\* NotifyContext registers its channel and starts the goroutine that waits
\* for a signal on it.
NotifyContext ==
    /\ pc = "notifyContext"
    /\ installed' = TRUE
    /\ installs' = installs + 1
    /\ watcher' = "waiting"
    /\ pc' = "goStart"
    /\ UNCHANGED <<envs, sigCh, inputs, sigCtxDone, fireCount, egCtxDone, group, tasks,
                   signals, drains, log, exit>>

\* eg.Go(func() error { ... s.Start() ... }): the goroutine is created, not yet run.
GoStart ==
    /\ pc = "goStart"
    /\ wg' = wg + 1
    /\ startTask' = "spawned"
    /\ pc' = "awaitDone"
    /\ UNCHANGED <<envs, sigs, inputs, ctxs, egErr, stopTask, startCalls, stopCalls,
                   signals, drains, log, exit>>

\* Fault variant of AwaitDone: main does not block on the context and goes on
\* to the stop phase at once.
AwaitDone_NoWait ==
    /\ pc = "awaitDone"
    /\ drains' = drains + 1
    /\ pc' = "goStop"
    /\ UNCHANGED <<envs, sigs, inputs, ctxs, group, tasks, signals, log, exit>>

\* <-ctx.Done() on the errgroup context.
AwaitDone ==
    /\ pc = "awaitDone"
    /\ egCtxDone
    /\ drains' = drains + 1
    /\ pc' = "goStop"
    /\ UNCHANGED <<envs, sigs, inputs, ctxs, group, tasks, signals, log, exit>>

\* Fault variant of GoStop: the stop task is launched only while the start
\* task is still alive.
GoStop_OnlyIfStartAlive ==
    /\ pc = "goStop"
    /\ IF startTask = "finished"
         THEN UNCHANGED <<wg, stopTask>>
         ELSE /\ wg' = wg + 1
              /\ stopTask' = "spawned"
    /\ pc' = "egWait"
    /\ UNCHANGED <<envs, sigs, inputs, ctxs, egErr, startTask, startCalls, stopCalls,
                   signals, drains, log, exit>>

\* eg.Go(func() error { ... s.Stop() ... })
GoStop ==
    /\ pc = "goStop"
    /\ wg' = wg + 1
    /\ stopTask' = "spawned"
    /\ pc' = "egWait"
    /\ UNCHANGED <<envs, sigs, inputs, ctxs, egErr, startTask, startCalls, stopCalls,
                   signals, drains, log, exit>>

\* Fault variant of EgWait: the result is read without joining the tasks.
EgWait_NoJoin ==
    /\ pc = "egWait"
    /\ egCtxDone' = TRUE
    /\ exit' = IF egErr # NoErr THEN 1 ELSE 0
    /\ pc' = "deferred"
    /\ UNCHANGED <<envs, sigs, inputs, installed, installs, sigCtxDone, fireCount, group,
                   tasks, signals, drains, log>>

\* Fault variant of EgWait: a grace period; when it expires with tasks still
\* in flight they are abandoned and the run is reported as failed.
EgWait_Timeout ==
    /\ pc = "egWait"
    /\ egCtxDone' = TRUE
    /\ exit' = IF egErr # NoErr \/ wg # 0 THEN 1 ELSE 0
    /\ pc' = "deferred"
    /\ UNCHANGED <<envs, sigs, inputs, installed, installs, sigCtxDone, fireCount, group,
                   tasks, signals, drains, log>>

\* if err := eg.Wait(); err != nil { return 1 }; return 0
\* Wait blocks on the WaitGroup, cancels the group context and returns g.err.
EgWait ==
    /\ pc = "egWait"
    /\ wg = 0
    /\ egCtxDone' = TRUE
    /\ exit' = IF egErr # NoErr THEN 1 ELSE 0
    /\ pc' = "deferred"
    /\ UNCHANGED <<envs, sigs, inputs, installed, installs, sigCtxDone, fireCount, group,
                   tasks, signals, drains, log>>

\* The deferred stop() of line 65, first half: c.cancel() cancels the signal
\* context.
DeferredCancel ==
    /\ pc = "deferred"
    /\ sigCtxDone' = TRUE
    /\ fireCount' = IF sigCtxDone THEN fireCount ELSE fireCount + 1
    /\ pc' = "signalStop"
    /\ UNCHANGED <<envs, sigs, inputs, installed, installs, egCtxDone, group,
                   tasks, signals, drains, log, exit>>

\* Fault variant of DeferredSignalStop: stop() is not deferred but called on
\* the success return only, so the failure return leaves the handler
\* registered.
DeferredSignalStop_SuccessOnly ==
    /\ pc = "signalStop"
    /\ installed' = (exit # 0)
    /\ pc' = "syncReturn"
    /\ UNCHANGED <<envs, sigs, inputs, installs, sigCtxDone, fireCount,
                   egCtxDone, group, tasks, signals, drains, log, exit>>

\* The deferred stop() of line 65, second half: signal.Stop(c.ch) unregisters
\* the handler.
DeferredSignalStop ==
    /\ pc = "signalStop"
    /\ installed' = FALSE
    /\ pc' = "syncReturn"
    /\ UNCHANGED <<envs, sigs, inputs, installs, sigCtxDone, fireCount,
                   egCtxDone, group, tasks, signals, drains, log, exit>>

\* The deferred log.Sync() of lines 40-42 runs and start() returns.
SyncReturn ==
    /\ pc = "syncReturn"
    /\ pc' = "done"
    /\ UNCHANGED <<envs, sigs, inputs, ctxs, group, tasks, signals, drains,
                   log, exit>>

----------------------------------------------------------------------------
(* Operating system *)

\* A SIGINT or SIGTERM arrives while start() runs and no handler is
\* registered, before line 64 or after signal.Stop in the deferred stop():
\* the default disposition ends the process with all its goroutines and
\* start() never returns.
Kill ==
    /\ pc \notin {"done", "killed"}
    /\ ~installed
    /\ pc' = "killed"
    /\ UNCHANGED <<envs, sigs, inputs, ctxs, group, tasks, signals, drains,
                   log, exit>>

\* A SIGINT or SIGTERM arrives while the handler of signal.NotifyContext is
\* registered: the runtime puts it into the channel without blocking; with
\* the channel full it is dropped.
Signal ==
    /\ installed
    /\ signals < MaxSignals
    /\ signals' = signals + 1
    /\ sigCh' = 1
    /\ UNCHANGED <<pc, envs, watcher, inputs, ctxs, group, tasks, drains,
                   log, exit>>

\* The goroutine of NotifyContext takes the signal out of the channel.
WatchReceive ==
    /\ pc # "killed"
    /\ watcher = "waiting"
    /\ sigCh = 1
    /\ sigCh' = 0
    /\ watcher' = "received"
    /\ UNCHANGED <<pc, envs, inputs, ctxs, group, tasks, signals, drains,
                   log, exit>>

\* Fault variant of WatchCancel: the goroutine goes back to receiving, and
\* every signal received fires the context again.
WatchCancel_Refire ==
    /\ pc # "killed"
    /\ watcher = "received"
    /\ watcher' = "waiting"
    /\ sigCtxDone' = TRUE
    /\ fireCount' = fireCount + 1
    /\ egCtxDone' = TRUE
    /\ UNCHANGED <<pc, envs, sigCh, inputs, installed, installs, group,
                   tasks, signals, drains, log, exit>>

\* Having received a signal, the goroutine calls c.cancel(), which cancels
\* the signal context and with it the derived errgroup context; then it ends.
WatchCancel ==
    /\ pc # "killed"
    /\ watcher = "received"
    /\ watcher' = "exited"
    /\ IF sigCtxDone
         THEN UNCHANGED <<sigCtxDone, fireCount, egCtxDone>>
         ELSE /\ sigCtxDone' = TRUE
              /\ fireCount' = fireCount + 1
              /\ egCtxDone' = TRUE
    /\ UNCHANGED <<pc, envs, sigCh, inputs, installed, installs, group,
                   tasks, signals, drains, log, exit>>

\* The goroutine of NotifyContext sees its context done (stop() was called)
\* and ends.
WatchDone ==
    /\ pc # "killed"
    /\ watcher = "waiting"
    /\ sigCtxDone
    /\ watcher' = "exited"
    /\ UNCHANGED <<pc, envs, sigCh, inputs, ctxs, group, tasks, signals,
                   drains, log, exit>>

----------------------------------------------------------------------------
(* Goroutine of eg.Go at line 68 *)

\* The goroutine is scheduled and calls s.Start().
StartCall ==
    /\ startTask = "spawned"
    /\ startTask' = "running"
    /\ startCalls' = startCalls + 1
    /\ UNCHANGED <<pc, envs, sigs, inputs, ctxs, group, stopTask, stopCalls, signals,
                   drains, log, exit>>

\* Fault variant of StartReturn: the error is returned without being logged.
StartReturn_NoLog ==
    /\ startTask = "running"
    /\ \/ startMode = "immediate"
       \/ startMode = "untilStop" /\ stopCalls > 0
    /\ startTask' = "returned"
    /\ UNCHANGED <<pc, envs, sigs, inputs, ctxs, group, stopTask, startCalls, stopCalls,
                   signals, drains, log, exit>>

\* s.Start() returns; a non-nil error is logged.
StartReturn ==
    /\ startTask = "running"
    /\ \/ startMode = "immediate"
       \/ startMode = "untilStop" /\ stopCalls > 0
    /\ startTask' = "returned"
    /\ log' = IF startRes # NoErr THEN Append(log, "start") ELSE log
    /\ UNCHANGED <<pc, envs, sigs, inputs, ctxs, group, stopTask, startCalls, stopCalls,
                   signals, drains, exit>>

\* Fault variant of StartErrOnce: an error that arrives once the group context
\* is already done is taken for a consequence of the shutdown and discarded.
StartErrOnce_DropAfterCancel ==
    /\ startTask = "returned"
    /\ startRes # NoErr
    /\ startTask' = "recorded"
    /\ IF egErr = NoErr /\ ~egCtxDone
         THEN /\ egErr' = startRes
              /\ egCtxDone' = TRUE
         ELSE UNCHANGED <<egErr, egCtxDone>>
    /\ UNCHANGED <<pc, envs, sigs, inputs, installed, installs, sigCtxDone,
                   fireCount, wg, stopTask, startCalls, stopCalls, signals,
                   drains, log, exit>>

\* The function has returned a non-nil error to the wrapper of eg.Go:
\* errOnce stores the first such error and cancels the group context.
StartErrOnce ==
    /\ startTask = "returned"
    /\ startRes # NoErr
    /\ startTask' = "recorded"
    /\ IF egErr = NoErr
         THEN /\ egErr' = startRes
              /\ egCtxDone' = TRUE
         ELSE UNCHANGED <<egErr, egCtxDone>>
    /\ UNCHANGED <<pc, envs, sigs, inputs, installed, installs, sigCtxDone,
                   fireCount, wg, stopTask, startCalls, stopCalls, signals,
                   drains, log, exit>>

\* Fault variant of StartDone: the group context is cancelled whenever the
\* task ends, with or without an error.
StartDone_CancelOnReturn ==
    /\ \/ startTask = "recorded"
       \/ startTask = "returned" /\ startRes = NoErr
    /\ startTask' = "finished"
    /\ egCtxDone' = TRUE
    /\ wg' = wg - 1
    /\ UNCHANGED <<pc, envs, sigs, inputs, installed, installs, sigCtxDone,
                   fireCount, egErr, stopTask, startCalls, stopCalls, signals,
                   drains, log, exit>>

\* Fault variant of StartDone: g.done() is missing, the WaitGroup counter is
\* never released.
StartDone_NoRelease ==
    /\ \/ startTask = "recorded"
       \/ startTask = "returned" /\ startRes = NoErr
    /\ startTask' = "finished"
    /\ UNCHANGED <<pc, envs, sigs, inputs, ctxs, group, stopTask, startCalls,
                   stopCalls, signals, drains, log, exit>>

\* The deferred g.done() of the wrapper, after errOnce or directly after a
\* nil return: the WaitGroup counter is released and the goroutine ends.
StartDone ==
    /\ \/ startTask = "recorded"
       \/ startTask = "returned" /\ startRes = NoErr
    /\ startTask' = "finished"
    /\ wg' = wg - 1
    /\ UNCHANGED <<pc, envs, sigs, inputs, ctxs, egErr, stopTask, startCalls,
                   stopCalls, signals, drains, log, exit>>

----------------------------------------------------------------------------
(* Goroutine of eg.Go at line 78 *)

\* The goroutine is scheduled and calls s.Stop().
StopCall ==
    /\ stopTask = "spawned"
    /\ stopTask' = "running"
    /\ stopCalls' = stopCalls + 1
    /\ UNCHANGED <<pc, envs, sigs, inputs, ctxs, group, startTask, startCalls, signals,
                   drains, log, exit>>

\* s.Stop() returns; a non-nil error is logged.
StopReturn ==
    /\ stopTask = "running"
    /\ stopMode = "returns"
    /\ stopTask' = "returned"
    /\ log' = IF stopRes # NoErr THEN Append(log, "stop") ELSE log
    /\ UNCHANGED <<pc, envs, sigs, inputs, ctxs, group, startTask, startCalls, stopCalls,
                   signals, drains, exit>>

\* Fault variant of StopErrOnce: no errOnce, the last error handed in wins.
StopErrOnce_Overwrite ==
    /\ stopTask = "returned"
    /\ stopRes # NoErr
    /\ stopTask' = "recorded"
    /\ egErr' = stopRes
    /\ egCtxDone' = TRUE
    /\ UNCHANGED <<pc, envs, sigs, inputs, installed, installs, sigCtxDone,
                   fireCount, wg, startTask, startCalls, stopCalls, signals,
                   drains, log, exit>>

\* Fault variant of StopErrOnce: the error of the task is discarded.
StopErrOnce_DropErr ==
    /\ stopTask = "returned"
    /\ stopRes # NoErr
    /\ stopTask' = "recorded"
    /\ UNCHANGED <<pc, envs, sigs, inputs, ctxs, group, startTask, startCalls,
                   stopCalls, signals, drains, log, exit>>

\* The function has returned a non-nil error to the wrapper of eg.Go:
\* errOnce stores the first such error and cancels the group context.
StopErrOnce ==
    /\ stopTask = "returned"
    /\ stopRes # NoErr
    /\ stopTask' = "recorded"
    /\ IF egErr = NoErr
         THEN /\ egErr' = stopRes
              /\ egCtxDone' = TRUE
         ELSE UNCHANGED <<egErr, egCtxDone>>
    /\ UNCHANGED <<pc, envs, sigs, inputs, installed, installs, sigCtxDone,
                   fireCount, wg, startTask, startCalls, stopCalls, signals,
                   drains, log, exit>>

\* The deferred g.done() of the wrapper, after errOnce or directly after a
\* nil return: the WaitGroup counter is released and the goroutine ends.
StopDone ==
    /\ \/ stopTask = "recorded"
       \/ stopTask = "returned" /\ stopRes = NoErr
    /\ stopTask' = "finished"
    /\ wg' = wg - 1
    /\ UNCHANGED <<pc, envs, sigs, inputs, ctxs, egErr, startTask, startCalls,
                   stopCalls, signals, drains, log, exit>>

----------------------------------------------------------------------------

Next ==
    \/ \E n \in EnvNames : EnvLoadSetenv(n)
    \/ EnvLoadReturn
    \/ CreateLogger
    \/ LoggerReturn
    \/ GetHost
    \/ GetPort
    \/ LoadDefaultConfig
    \/ ConfigLog
    \/ ConfigReturn
    \/ NotifyContext
    \/ GoStart
    \/ AwaitDone
    \/ GoStop
    \/ EgWait
    \/ DeferredCancel
    \/ DeferredSignalStop
    \/ SyncReturn
    \/ Kill
    \/ Signal
    \/ WatchReceive
    \/ WatchCancel
    \/ WatchDone
    \/ StartCall
    \/ StartReturn
    \/ StartErrOnce
    \/ StartDone
    \/ StopCall
    \/ StopReturn
    \/ StopErrOnce
    \/ StopDone

Spec == Init /\ [][Next]_vars

\* The Go scheduler eventually runs every runnable goroutine; the operating
\* system is under no obligation to deliver a signal.
Fairness ==
    /\ WF_vars(WatchReceive)
    /\ WF_vars(WatchCancel)
    /\ WF_vars(\E n \in EnvNames : EnvLoadSetenv(n))
    /\ WF_vars(EnvLoadReturn)
    /\ WF_vars(LoggerReturn)
    /\ WF_vars(ConfigLog)
    /\ WF_vars(ConfigReturn)
    /\ WF_vars(GetHost)
    /\ WF_vars(GetPort)
    /\ WF_vars(WatchDone)
    /\ WF_vars(StartErrOnce)
    /\ WF_vars(StopErrOnce)
    /\ WF_vars(CreateLogger)
    /\ WF_vars(LoadDefaultConfig)
    /\ WF_vars(NotifyContext)
    /\ WF_vars(GoStart)
    /\ WF_vars(AwaitDone)
    /\ WF_vars(GoStop)
    /\ WF_vars(EgWait)
    /\ WF_vars(DeferredCancel)
    /\ WF_vars(DeferredSignalStop)
    /\ WF_vars(SyncReturn)
    /\ WF_vars(StartCall)
    /\ WF_vars(StartReturn)
    /\ WF_vars(StartDone)
    /\ WF_vars(StopCall)
    /\ WF_vars(StopReturn)
    /\ WF_vars(StopDone)

FairSpec == Spec /\ Fairness

----------------------------------------------------------------------------
(* The configuration getters, applied to every environment *)

\* The getters run in a process whose start() has not begun; the environment
\* is any assignment of the enumerated values to the variables, which covers
\* whatever env.Load() leaves behind.
EnvInit ==
    /\ environ \in Environments
    /\ ret = NoCall
    /\ host = <<>>
    /\ port = -1
    /\ pc = "envLoad"
    /\ dotEnv = [n \in EnvNames |-> Unset]
    /\ loggerFails = FALSE
    /\ awsFails = FALSE
    /\ startMode = "untilStop"
    /\ startRes = NoErr
    /\ stopMode = "returns"
    /\ stopRes = NoErr
    /\ installed = FALSE
    /\ installs = 0
    /\ sigCtxDone = FALSE
    /\ fireCount = 0
    /\ egCtxDone = FALSE
    /\ egErr = NoErr
    /\ wg = 0
    /\ startTask = "none"
    /\ stopTask = "none"
    /\ startCalls = 0
    /\ stopCalls = 0
    /\ signals = 0
    /\ drains = 0
    /\ log = <<>>
    /\ exit = -1
    /\ sigCh = 0
    /\ watcher = "none"

supervisor == <<pc, sigs, inputs, ctxs, group, tasks, signals, drains, log, exit>>

\* A call getStringOrDefault(name, defaultV).
CallGetString ==
    \E name \in EnvNames, d \in StringDefaults :
        /\ ret' = [fn |-> "getStringOrDefault", name |-> name, defS |-> d,
                   defI |-> 0, outS |-> getStringOrDefault(name, d), outI |-> 0]
        /\ UNCHANGED <<environ, host, port, supervisor>>

\* A call getIntOrDefault(name, defaultV).
CallGetInt ==
    \E name \in EnvNames, d \in IntDefaults :
        /\ ret' = [fn |-> "getIntOrDefault", name |-> name, defS |-> <<>>,
                   defI |-> d, outS |-> <<>>, outI |-> getIntOrDefault(name, d)]
        /\ UNCHANGED <<environ, host, port, supervisor>>

EnvNext ==
    \/ CallGetString
    \/ CallGetInt

EnvSpec == EnvInit /\ [][EnvNext]_vars

TypeOK ==
    /\ host \in {<<>>, Localhost, <<"7">>, <<"x">>}
    /\ port \in {-1, 7, 8080}
    /\ pc \in {"envLoad", "createLogger", "loggerReturn", "getHost", "getPort",
               "loadConfig", "configLog", "configReturn", "notifyContext",
               "goStart", "awaitDone", "goStop", "egWait", "deferred",
               "signalStop", "syncReturn", "done", "killed"}
    /\ startTask \in {"none", "spawned", "running", "returned", "recorded", "finished"}
    /\ stopTask \in {"none", "spawned", "running", "returned", "recorded", "finished"}
    /\ sigCh \in 0..1
    /\ watcher \in {"none", "waiting", "received", "exited"}
    /\ environ \in [EnvNames -> {Unset} \cup {[v |-> x, ok |-> TRUE] : x \in EnvValues \cup {<<"7">>, <<"x">>}}]
    /\ egErr \in {NoErr, Ea, Eb}
    /\ wg \in 0..2
    /\ signals \in 0..MaxSignals
    /\ exit \in {-1, 0, 1}

\* start() has returned through the supervisor path (lines 64-90).
SupervisorReturned == pc = "done" /\ installs > 0

\* start() has produced its exit status on the supervisor path.
StatusProduced == exit # -1 /\ installs > 0

\* The task's function has returned a non-nil error.
StartErred == startTask \in {"returned", "recorded", "finished"} /\ startRes # NoErr
StopErred == stopTask \in {"returned", "recorded", "finished"} /\ stopRes # NoErr

\* The errors held by the errgroup, as a set.
Collected == IF egErr = NoErr THEN {} ELSE {egErr}

\* The phases named by the log records.
Logged == {log[i] : i \in 1..Len(log)}

----------------------------------------------------------------------------
\* C1 (P2, stop-follows-start): on the supervisor path s.Stop() is invoked
\* at most once at any time, and by the time the exit status is produced
\* s.Start() and s.Stop() have each been invoked exactly once.
C1_StopFollowsStart ==
    /\ stopCalls <= 1
    /\ StatusProduced => startCalls = 1 /\ stopCalls = 1

\* A run whose Start() was still in flight when draining began has returned.
C1_Witness ==
    /\ SupervisorReturned
    /\ startMode = "untilStop"
    /\ signals > 0
    /\ stopCalls = 1

\* C2 (P3, implicit cancellation): once s.Start() has returned, with nil or
\* with an error, and no signal has been delivered, s.Stop() is eventually
\* invoked.
C2_Original ==
    (startTask \in {"returned", "recorded", "finished"} /\ signals = 0) ~> (stopCalls > 0)

\* C3 (exit outcome): when the exit status is produced on the supervisor
\* path it is 1 iff the Start() task or the Stop() task returned a non-nil
\* error, and 0 iff neither did.
C3_ExitOutcome ==
    StatusProduced =>
        /\ exit = 1 <=> (StartErred \/ StopErred)
        /\ exit = 0 <=> ~(StartErred \/ StopErred)

\* A run in which only Stop() failed has returned 1.
C3_Witness ==
    /\ SupervisorReturned
    /\ startRes = NoErr
    /\ stopRes = Eb
    /\ exit = 1

\* C4 (P4, aggregation completeness): when Start() returned Ea and
\* Stop() returned Eb, the outcome is failure and both errors are in the set
\* held by the aggregator.
C4_Original ==
    (SupervisorReturned /\ StartErred /\ StopErred) =>
        /\ exit = 1
        /\ {Ea, Eb} \subseteq Collected

\* C5 (join-all): the exit status is produced only when the Start() task and
\* the Stop() task have both completed.
C5_JoinAll ==
    StatusProduced =>
        /\ startTask = "finished"
        /\ stopTask = "finished"
        /\ wg = 0

\* The supervisor returned after Start() failed at once, before any signal.
C5_Witness ==
    /\ SupervisorReturned
    /\ startMode = "immediate"
    /\ startRes = Ea
    /\ signals = 0
    /\ stopTask = "finished"

\* C6 (P1, single fire): the signal context fires at most once and never
\* un-fires; once a request has been delivered it does fire, exactly once;
\* Stop() is invoked and draining entered at most once; the delivery of a
\* request, the first or a later one, changes nothing but the count of
\* requests and the content of the channel; and once the goroutine of
\* NotifyContext has ended, nothing fires the context again.
C6_SingleFire ==
    /\ [](/\ fireCount <= 1
          /\ stopCalls <= 1
          /\ drains <= 1
          /\ sigCtxDone <=> fireCount = 1
          /\ watcher = "exited" => sigCtxDone)
    /\ [][sigCtxDone => sigCtxDone']_vars
    /\ [][signals' > signals =>
            UNCHANGED <<pc, envs, watcher, inputs, ctxs, group, tasks, drains,
                        log, exit>>]_vars
    /\ (signals >= 1) ~> (sigCtxDone /\ egCtxDone /\ fireCount = 1)

\* Two requests were delivered, the first one fired the context, the second
\* one lies in the channel unread, and the supervisor returned.
C6_Witness ==
    /\ SupervisorReturned
    /\ signals = 2
    /\ sigCh = 1
    /\ watcher = "exited"
    /\ fireCount = 1
    /\ stopCalls = 1

\* The component of the success path: Start() blocks until Stop() is called,
\* both return nil.
WellBehaved ==
    /\ startMode = "untilStop"
    /\ startRes = NoErr
    /\ stopMode = "returns"
    /\ stopRes = NoErr

\* C7 (P5, success path): with that component, once Start() is running and a
\* request has been delivered, Stop() is invoked and start() reaches the
\* return of 0 and returns, unless a further request arrives once the handler
\* is unregistered and ends the process between that and the return; Start()
\* does not return before Stop() was invoked.
C7_SuccessPath ==
    /\ (WellBehaved /\ startTask = "running" /\ signals >= 1)
          ~> (pc \in {"done", "killed"} /\ exit = 0 /\ stopCalls = 1)
    /\ [](WellBehaved /\ pc = "killed" /\ installs > 0 => exit = 0 /\ ~installed)
    /\ [](WellBehaved /\ startTask \in {"returned", "recorded", "finished"} => stopCalls = 1)

\* The success path has run to its end.
C7_Witness ==
    /\ WellBehaved
    /\ SupervisorReturned
    /\ signals = 1
    /\ exit = 0

\* The component of the start-error scenario: Start() returns Ea at once.
FailsAtOnce == startMode = "immediate" /\ startRes = Ea

\* C8 (start-phase error): with that component and no request delivered,
\* draining is entered and Stop() invoked exactly once; if Stop() returns,
\* start() reaches the return of 1 and returns, unless a request arrives once
\* the handler is unregistered and ends the process; and when it has returned
\* without any request delivered, the status is 1 and the error held is the
\* start error.
C8_StartError ==
    /\ (FailsAtOnce /\ StartErred /\ signals = 0)
          ~> (drains = 1 /\ stopCalls = 1)
    /\ (FailsAtOnce /\ StartErred /\ stopMode = "returns")
          ~> (pc \in {"done", "killed"} /\ exit = 1)
    /\ [](FailsAtOnce /\ SupervisorReturned /\ signals = 0 =>
            /\ drains = 1
            /\ stopCalls = 1
            /\ exit = 1
            /\ egErr = Ea)

\* Start() and Stop() both failed, no request was delivered, start() returned.
C8_Witness ==
    /\ FailsAtOnce
    /\ stopRes = Eb
    /\ SupervisorReturned
    /\ signals = 0
    /\ egErr = Ea

\* C9 (configuration error): when logger creation or configuration loading
\* fails, no handler is ever installed, neither Start() nor Stop() is ever
\* launched or invoked, and start() returns 1.
C9_ConfigError ==
    (loggerFails \/ awsFails) =>
        /\ installs = 0
        /\ ~installed
        /\ startTask = "none" /\ stopTask = "none"
        /\ startCalls = 0 /\ stopCalls = 0
        /\ pc \in {"envLoad", "createLogger", "loggerReturn", "getHost",
                   "getPort", "loadConfig", "configLog", "configReturn",
                   "syncReturn",
                   "done", "killed"}
        /\ pc \in {"syncReturn", "done"} => exit = 1

\* Configuration loading failed and start() returned 1.
C9_Witness ==
    /\ pc = "done"
    /\ ~loggerFails
    /\ awsFails
    /\ exit = 1

\* C10 (stop-after-start ordering): in every interleaving s.Stop() is not
\* invoked before s.Start() has been invoked.
C10_StopAfterStart == stopCalls > 0 => startCalls > 0

\* C11 (draining discipline): the Stop() task is launched and s.Stop()
\* invoked only once the errgroup context is done and main has passed
\* <-ctx.Done(); main passes it at most once, and exactly once in any run
\* that produces an exit status.
C11_DrainingDiscipline ==
    /\ drains <= 1
    /\ pc \in {"goStart", "awaitDone"} => (drains = 0 /\ stopTask = "none")
    /\ (stopTask # "none" \/ stopCalls > 0) => (egCtxDone /\ drains = 1)
    /\ StatusProduced => drains = 1

\* A request was delivered and Start() failed as well; Stop() ran once.
C11_Witness ==
    /\ signals >= 1
    /\ StartErred
    /\ egErr = Ea
    /\ stopCalls = 1
    /\ drains = 1
    /\ SupervisorReturned

\* C12 (unbounded shutdown wait): on the supervisor path, a component whose
\* Stop() never returns, or whose Start() never returns, keeps start() from
\* ever producing an exit status; the status is produced only by a step taken
\* with both tasks finished; and once both tasks have finished while main is
\* in the join, the join is open and start() reaches its return statement and
\* returns, unless a request arrives once the handler is unregistered and ends
\* the process between that and the return.
C12_UnboundedWait ==
    /\ []((installs > 0 /\ (stopMode = "never" \/ startMode = "never"))
            => (exit = -1 /\ pc # "done"))
    /\ [][(installs > 0 /\ exit = -1 /\ exit' # -1) =>
            (startTask = "finished" /\ stopTask = "finished")]_vars
    /\ []((pc = "egWait" /\ startTask = "finished" /\ stopTask = "finished")
            => wg = 0)
    /\ (pc = "egWait" /\ startTask = "finished" /\ stopTask = "finished")
          ~> (pc \in {"done", "killed"} /\ exit # -1)

\* Draining has begun, Start() has returned and Stop() hangs: main sits in
\* the join with no exit status.
C12_Witness ==
    /\ pc = "egWait"
    /\ drains = 1
    /\ stopMode = "never"
    /\ stopTask = "running"
    /\ startTask = "finished"
    /\ exit = -1

\* Number of log records naming the given phase.
LogCount(phase) == Cardinality({i \in 1..Len(log) : log[i] = phase})

\* C13 (no silently dropped errors): at any time the log holds exactly one
\* "start" record if Start() has returned a non-nil error and none otherwise,
\* and likewise for Stop(); and when the exit status is produced after either
\* error, it is 1.
C13_NoDroppedErrors ==
    /\ LogCount("start") = (IF StartErred THEN 1 ELSE 0)
    /\ LogCount("stop") = (IF StopErred THEN 1 ELSE 0)
    /\ (StatusProduced /\ (StartErred \/ StopErred)) => exit = 1

\* Both phases failed; both records are in the log, the start error first,
\* and start() returned 1.
C13_Witness ==
    /\ SupervisorReturned
    /\ StartErred
    /\ StopErred
    /\ log = <<"start", "stop">>
    /\ exit = 1

\* C14 (signal-listener lifecycle): the handler is installed at most once,
\* before the Start() task is launched; it is registered at every position of
\* main from the launch of Start() up to signal.Stop in the deferred stop();
\* and it is not registered once start() has returned, with either status.
C14_ListenerLifecycle ==
    /\ installs <= 1
    /\ startTask # "none" => installs = 1
    /\ pc \in {"goStart", "awaitDone", "goStop", "egWait", "deferred",
               "signalStop"} => installed
    /\ pc \in {"syncReturn", "done"} => ~installed

\* start() returned 1 without any request delivered: the handler was
\* installed and is registered no more.
C14_Witness ==
    /\ SupervisorReturned
    /\ installs = 1
    /\ signals = 0
    /\ exit = 1
    /\ ~installed

\* C15 (draining trigger): main passes <-ctx.Done(), and s.Stop() is invoked,
\* only when a request has been delivered or Start() has returned a non-nil
\* error that errOnce has stored; and while Start() has returned nil and no
\* request has been delivered, the group context is not done, main is blocked
\* at <-ctx.Done(), and s.Stop() has not been invoked.
C15_DrainingTrigger ==
    /\ (drains > 0 \/ stopCalls > 0) =>
          (signals > 0 \/ (StartErred /\ egErr = startRes))
    /\ (startTask \in {"returned", "recorded", "finished"} /\ startRes = NoErr /\ signals = 0) =>
          /\ pc = "awaitDone"
          /\ ~egCtxDone
          /\ drains = 0
          /\ stopCalls = 0
          /\ exit = -1

\* The Start() task has completed with nil, no request was delivered, and
\* main waits.
C15_Witness ==
    /\ startTask = "finished"
    /\ startRes = NoErr
    /\ signals = 0
    /\ pc = "awaitDone"
    /\ wg = 0

\* The exit status as a function of the two return values alone.
OutcomeOf(sr, pr) == IF sr = NoErr /\ pr = NoErr THEN 0 ELSE 1

\* C16 (outcome determinism): on the supervisor path the exit status is a
\* function of the values Start() and Stop() return; it is the same whatever
\* the interleaving, the draining trigger and the number of requests.
C16_OutcomeDeterminism ==
    StatusProduced => exit = OutcomeOf(startRes, stopRes)

\* Draining was triggered by a request, a second request followed, and the
\* start error arrived only after Stop() was called; the status is still 1.
C16_Witness ==
    /\ SupervisorReturned
    /\ startMode = "untilStop"
    /\ startRes = Ea
    /\ stopRes = NoErr
    /\ signals = 2
    /\ exit = 1

\* The string is an optional sign followed by decimal digits only, at least
\* one.
IsIntLiteral(s) ==
    LET first == IF Len(s) >= 1 /\ s[1] \in {"+", "-"} THEN 2 ELSE 1
    IN  /\ first <= Len(s)
        /\ \A i \in first..Len(s) : s[i] \in DigitChars

\* Position of the first significant digit of an integer literal (one past
\* the end when all its digits are zero).
FirstSignificant(s) ==
    LET first == IF s[1] \in {"+", "-"} THEN 2 ELSE 1
    IN  CHOOSE k \in first..(Len(s) + 1) :
            /\ \A i \in first..(k - 1) : s[i] = "0"
            /\ k = Len(s) + 1 \/ s[k] # "0"

RECURSIVE Pow10(_)
Pow10(k) == IF k = 0 THEN 1 ELSE 10 * Pow10(k - 1)

\* Sum of digit * 10^position over the positions from i to the end.
RECURSIVE PositionalSum(_, _)
PositionalSum(s, i) ==
    IF i > Len(s) THEN 0
    ELSE DigitVal(s[i]) * Pow10(Len(s) - i) + PositionalSum(s, i + 1)

\* The number an integer literal denotes.
LiteralValue(s) ==
    LET mag == PositionalSum(s, FirstSignificant(s))
    IN  IF s[1] = "-" THEN -mag ELSE mag

\* The literal denotes a number a 64-bit int can hold.
LiteralInRange(s) ==
    LET sig == SubSeq(s, FirstSignificant(s), Len(s))
    IN  \/ Len(sig) <= 18
        \/ /\ Len(sig) = 19
           /\ DigitsLeq(sig, IF s[1] = "-" THEN MinInt64Digits ELSE MaxInt64Digits)

ParsesAsInt(s) == IsIntLiteral(s) /\ LiteralInRange(s)

\* C17 (configuration defaults): getStringOrDefault yields the value of the
\* variable when it is set, the empty value included, and the default when it
\* is not; getIntOrDefault yields the number the value denotes when the
\* variable is set to an integer literal within the range of int, and the
\* default when it is unset or set to anything else; the result is always a
\* plain value.
C17_ConfigDefaults ==
    LET e == environ[ret.name]
    IN  /\ ret.fn = "getStringOrDefault" =>
              ret.outS = (IF e.ok THEN e.v ELSE ret.defS)
        /\ ret.fn = "getIntOrDefault" =>
              /\ ret.outI \in Int
              /\ ret.outI = (IF e.ok /\ ParsesAsInt(e.v)
                               THEN LiteralValue(e.v)
                               ELSE ret.defI)

\* PORT is set to "-7" and getIntOrDefault("PORT", 8080) has yielded -7.
C17_Witness ==
    /\ ret.fn = "getIntOrDefault"
    /\ ret.name = "PORT"
    /\ ret.defI = 8080
    /\ environ["PORT"] = [v |-> <<"-", "7">>, ok |-> TRUE]
    /\ ret.outI = -7

====
